---- MODULE Spec2Model ----
(***************************************************************************)
(* Model of the serial communication layer of the miniseg controller      *)
(* (controller/src/communication/comm.cpp, comm.hpp): the packet framing   *)
(* state machine, the software receive buffer fed by the TIMER4 compare    *)
(* interrupt, the transmit queue and the diagnostic message channel.       *)
(*                                                                         *)
(* The microcontroller state (the global Communication object `comm`, the  *)
(* Serial hardware queue, the timer interrupt mask and the LED pin) is one *)
(* record, so that every function of the source is an operator from        *)
(* machine state to machine state and a handler is the composition of the  *)
(* calls it makes.  Buffers are 1-based sequences: C index i is i + 1.     *)
(***************************************************************************)
EXTENDS Integers, Sequences, FiniteSets, TLC

VARIABLES
    mcu,     \* the microcontroller: comm's fields, Serial, TIMSK4, LED
    pc,      \* position of the main context (loop() and the call it is in)
    loc,     \* locals of the call the main context is in
    host,    \* what the host and the application may still do (budgets)
    cfg      \* build-time sizes (comm.hpp), fixed for a behaviour

vars == <<mcu, pc, loc, host, cfg>>

(***************************************************************************)
(* Build-time sizes.  The source sets RX_BUFFER_SIZE = TX_BUFFER_SIZE =    *)
(* 1500 and TX_STATUS_MSG_BUFFER_SIZE = 128; the model is checked at two   *)
(* scaled-down sizes: a small one, where every byte string over a small    *)
(* alphabet is explored, and a frame scale, which (like the source's 1500) *)
(* is larger than the value of the start token, 36.                        *)
(***************************************************************************)
SmallRxSize == 4
SmallTxSize == 7
FrameRxSize == 40
FrameTxSize == 40
StatusMsgSize == 8
SerialRxFull == 2
MaxHostBytes == 5
MaxAppCalls == 2
MaxTxHostBytes == 3
MaxIters == 6
MaxAvail == 3
MaxTokenBody == 2
RestartRxSize == 9
RestartTxSize == 13
MaxLoopCalls == 2
MaxLoopHostBytes == 2
MaxRejectLen == 2
MaxRejectTail == 6
MaxStream == 7
MaxChunk == 3
DirectRxSize == 3
MaxDirectBytes == 7

RX_BUFFER_SIZE == cfg.rx
TX_BUFFER_SIZE == cfg.tx
TX_STATUS_MSG_BUFFER_SIZE == cfg.msg
TX_STATUS_MSG_TRUNC_IND_SIZE == 5
PACKET_START_TOKEN == 36
\* " ..." without its terminator
TX_STATUS_MSG_TRUNC_IND == <<32, 46, 46, 46>>
\* Serial.available() of a full hardware queue (the literal 63 of the source)
SERIAL_RX_FULL == cfg.hwrx

Byte == 0..255
U16(x) == x % 65536
Min(a, b) == IF a < b THEN a ELSE b
highByte(w) == (w \div 256) % 256
lowByte(w) == w % 256
\* bitwise or of two naturals
RECURSIVE BitOr(_, _)
BitOr(a, b) ==
    IF a = 0 THEN b
    ELSE IF b = 0 THEN a
    ELSE (IF a % 2 = 1 \/ b % 2 = 1 THEN 1 ELSE 0) + 2 * BitOr(a \div 2, b \div 2)

(***************************************************************************)
(* Texts of the diagnostics (flash strings of comm.cpp), abbreviated to    *)
(* one character each so that a diagnostic frame fits the scaled buffers.  *)
(***************************************************************************)
MSG_INSUFFICIENT_RECEIVE_RATE == <<87>>
MSG_INCOMING_DATA_RATE_TOO_FAST == <<70>>
MSG_PREVIOUS_PACKET_INCOMPLETE == <<80>>
MSG_ERROR == <<69>>
MSG_WHEN_DESERIALIZING == <<58>>
\* err.f_str() of a DeserializationError
MSG_ERR_F_STR == <<73>>

(***************************************************************************)
(* The payload codec (ArduinoJson).  A JsonDocument is modelled by the     *)
(* bytes serializeJson writes for it and by its overflowed() flag.         *)
(* deserializeJson reads JSON text: it rejects empty input and control     *)
(* characters (bytes below 32).                                            *)
(***************************************************************************)
JsonDoc(bytes) == [bytes |-> bytes, overflowed |-> FALSE]
measureJson(doc) == Len(doc.bytes)
serializeJson(doc) == doc.bytes
deserializeJson(bytes) == bytes # <<>> /\ \A i \in 1..Len(bytes) : bytes[i] >= 32
\* status_msg_doc[STATUS_MESSAGE_KEY] = TX_STATUS_MSG_BUFFER, as {"msg":...}
StatusDoc(text) == JsonDoc(<<123>> \o text \o <<125>>)

(***************************************************************************)
(* Memory of the transmit path.  TX_BUFFER is followed in the object by    *)
(* RX_BUFFER (comm.hpp), so an index past TX_BUFFER_SIZE lands in          *)
(* RX_BUFFER; an index past both leaves the object, which sets `oob`.      *)
(***************************************************************************)
ReadTx(m, idx) ==
    IF idx < TX_BUFFER_SIZE
    THEN m.TX_BUFFER[idx + 1]
    ELSE IF idx - TX_BUFFER_SIZE < RX_BUFFER_SIZE
    THEN m.RX_BUFFER[idx - TX_BUFFER_SIZE + 1]
    ELSE 0

\* bytes stored at TX_BUFFER + dest, TX_BUFFER + dest + 1, ...
WriteBytes(m, dest, bytes) ==
    LET n == Len(bytes)
        At(old, j) == IF dest < j /\ j <= dest + n THEN bytes[j - dest] ELSE old
    IN  [m EXCEPT
            !.TX_BUFFER = [i \in 1..TX_BUFFER_SIZE |-> At(m.TX_BUFFER[i], i)],
            !.RX_BUFFER = [i \in 1..RX_BUFFER_SIZE |->
                              At(m.RX_BUFFER[i], i + TX_BUFFER_SIZE)],
            !.oob = m.oob \/ dest + n > TX_BUFFER_SIZE]

ReadBytes(m, from, n) == [i \in 1..n |-> ReadTx(m, from + i - 1)]

\* The frame build_packet writes for a document: 3 header bytes, then the JSON.
Packet(doc) ==
    <<PACKET_START_TOKEN, highByte(measureJson(doc)), lowByte(measureJson(doc))>>
        \o serializeJson(doc)

\* build_packet returning the length of the JSON without the header
build_packet_size_without_header(doc, dest_size) ==
    IF dest_size < U16(3 + measureJson(doc)) THEN 0 ELSE U16(measureJson(doc))

\* build_packet's return value for a destination of dest_size bytes.
build_packet_size(doc, dest_size) ==
    IF dest_size < U16(3 + measureJson(doc)) THEN 0 ELSE U16(3 + measureJson(doc))

\* build_packet writing the JSON behind a header it leaves unwritten
build_packet_without_header_bytes(m, doc) ==
    IF build_packet_size(doc, U16(TX_BUFFER_SIZE - m.tx_buf_head)) = 0 THEN m
    ELSE WriteBytes(m, m.tx_buf_head + 3, serializeJson(doc))

\* build_packet(tx_doc, TX_BUFFER + tx_buf_head, TX_BUFFER_SIZE - tx_buf_head)
build_packet(m, doc) ==
    IF build_packet_size(doc, U16(TX_BUFFER_SIZE - m.tx_buf_head)) = 0 THEN m
    ELSE WriteBytes(m, m.tx_buf_head, Packet(doc))

\* enqueue_for_transmit up to and including the call of build_packet;
\* packet_size is left in the machine's scratch field for the second half.
enqueue_build(m, doc) ==
    IF doc.overflowed
    THEN [m EXCEPT !.packet_size = 0]
    ELSE [build_packet(m, doc) EXCEPT
            !.packet_size = build_packet_size(doc, U16(TX_BUFFER_SIZE - m.tx_buf_head))]

\* enqueue_for_transmit after build_packet returned: the head update and the
\* return code.
enqueue_commit(m, doc) ==
    IF doc.overflowed THEN [m EXCEPT !.tcode = "TX_DOC_OVERFLOW"]
    ELSE IF m.packet_size > 0
    THEN [m EXCEPT !.tx_buf_head = U16(@ + m.packet_size),
                   !.expect = IF m.wire_ok THEN @ \o Packet(doc) ELSE @,
                   !.tcode = "TX_SUCCESS"]
    ELSE IF U16(3 + measureJson(doc)) > TX_BUFFER_SIZE
    THEN [m EXCEPT !.tcode = "TX_BUFFER_TOO_SMALL_TO_FIT_DATA"]
    ELSE [m EXCEPT !.tcode = "TRANSMIT_RATE_TOO_LOW"]

enqueue_for_transmit(m, doc) == enqueue_commit(enqueue_build(m, doc), doc)

\* message_clear leaving the message in place
message_clear_skipped(m) == m

\* message_clear: the empty string copied into TX_STATUS_MSG_BUFFER
message_clear(m) == [m EXCEPT !.TX_STATUS_MSG_BUFFER = <<>>]

\* strlcpy into TX_STATUS_MSG_BUFFER + existing_len of `size` bytes: at most
\* size - 1 characters and the terminator.
StrlcpyAppend(buf, src, size) == buf \o SubSeq(src, 1, Min(Len(src), size - 1))

\* The truncation marker written at TX_STATUS_MSG_BUFFER_SIZE -
\* TX_STATUS_MSG_TRUNC_IND_SIZE: it is part of the stored string when the
\* string reaches that far, and lies behind its terminator otherwise.
Truncated(buf) ==
    IF Len(buf) < TX_STATUS_MSG_BUFFER_SIZE - TX_STATUS_MSG_TRUNC_IND_SIZE
    THEN buf
    ELSE SubSeq(buf, 1, TX_STATUS_MSG_BUFFER_SIZE - TX_STATUS_MSG_TRUNC_IND_SIZE)
            \o TX_STATUS_MSG_TRUNC_IND

\* message_append(const __FlashStringHelper *msg)
message_append(m, msg) ==
    LET existing_len == Len(m.TX_STATUS_MSG_BUFFER)
        room == TX_STATUS_MSG_BUFFER_SIZE - existing_len
        copied == StrlcpyAppend(m.TX_STATUS_MSG_BUFFER, msg, room)
    IN  IF Len(msg) < room
        THEN [m EXCEPT !.TX_STATUS_MSG_BUFFER = copied, !.append_ok = TRUE]
        ELSE [m EXCEPT !.TX_STATUS_MSG_BUFFER = Truncated(copied), !.append_ok = FALSE]

\* message_enqueue_for_transmit(const __FlashStringHelper *msg)
message_enqueue_for_transmit(m, msg) ==
    LET a == message_append(m, msg)
    IN  message_clear(enqueue_for_transmit(
            [a EXCEPT !.diag = Append(@, a.TX_STATUS_MSG_BUFFER)],
            StatusDoc(a.TX_STATUS_MSG_BUFFER)))

(***************************************************************************)
(* The sink (Serial.write).  `expect` is a history field: the bytes of the *)
(* frames enqueued (or written directly) so far that the sink has not seen *)
(* yet, in enqueue order; wire_ok says that every byte written so far was  *)
(* the next expected one.  With the TX pin wired to the RX pin             *)
(* (cfg.loopback) a written byte enters the hardware receive queue, or is  *)
(* lost when that queue is full.                                           *)
(***************************************************************************)
Serial_write(m, bytes) ==
    LET n == Len(bytes)
        room == IF cfg.loopback THEN SERIAL_RX_FULL - Len(m.Serial_rx) ELSE 0
        w == [m EXCEPT !.Serial_rx = @ \o SubSeq(bytes, 1, Min(n, room))]
    IN  IF w.wire_ok /\ Len(w.expect) >= n /\ SubSeq(w.expect, 1, n) = bytes
        THEN [w EXCEPT !.expect = SubSeq(@, n + 1, Len(@))]
        ELSE [w EXCEPT !.expect = <<>>, !.wire_ok = FALSE]

\* async_transmit: the write of min(pending, available_bytes) bytes at tx_buf_tail
transmit_write(m, available_bytes) ==
    IF m.tx_buf_head > m.tx_buf_tail /\ available_bytes > 0
    THEN LET n == Min(U16(m.tx_buf_head - m.tx_buf_tail), available_bytes)
         IN  [Serial_write(m, ReadBytes(m, m.tx_buf_tail, n)) EXCEPT
                 !.tx_buf_tail = U16(@ + n)]
    ELSE m

\* async_transmit resetting tx_buf_tail alone
transmit_reset_tail_only(m) ==
    IF m.tx_buf_tail = m.tx_buf_head
    THEN [m EXCEPT !.tx_buf_tail = 0]
    ELSE m

\* async_transmit: the reset of both counters once the buffer is drained
transmit_reset(m) ==
    IF m.tx_buf_tail = m.tx_buf_head
    THEN [m EXCEPT !.tx_buf_tail = 0, !.tx_buf_head = 0]
    ELSE m

\* async_transmit leaving the counters where the write put them
async_transmit_without_reset(m, available_bytes) ==
    LET w == transmit_write(m, available_bytes)
    IN  [w EXCEPT !.tx_left = U16(w.tx_buf_head - w.tx_buf_tail)]

\* async_transmit as one uninterrupted call; tx_left is its return value
async_transmit(m, available_bytes) ==
    LET w == IF m.tx_buf_head > m.tx_buf_tail /\ available_bytes > 0
             THEN transmit_reset(transmit_write(m, available_bytes))
             ELSE m
    IN  [w EXCEPT !.tx_left = U16(w.tx_buf_head - w.tx_buf_tail)]

(***************************************************************************)
(* The receive path.                                                       *)
(***************************************************************************)
\* The payload window RX_BUFFER[start .. start + len)
Window(m, start, len) == [i \in 1..len |-> m.RX_BUFFER[start + i]]

\* The C string at RX_BUFFER + start, as far as RX_BUFFER holds it.
RECURSIVE CStr(_, _)
CStr(m, start) ==
    IF start >= RX_BUFFER_SIZE \/ m.RX_BUFFER[start + 1] = 0 THEN <<>>
    ELSE <<m.RX_BUFFER[start + 1]>> \o CStr(m, start + 1)

\* strlen(RX_BUFFER + start): when no terminator lies inside RX_BUFFER the
\* scan leaves the array, and m.past more characters are counted there.
CStrLen(m, start) ==
    IF Len(CStr(m, start)) = RX_BUFFER_SIZE - start
    THEN Len(CStr(m, start)) + m.past
    ELSE Len(CStr(m, start))

\* message_append(const char *msg, size_t msg_len) with msg = RX_BUFFER + start
message_append_raw(m, start, msg_len) ==
    LET existing_len == Len(m.TX_STATUS_MSG_BUFFER)
        room == TX_STATUS_MSG_BUFFER_SIZE - existing_len
        src == CStr(m, start)
        copied == StrlcpyAppend(m.TX_STATUS_MSG_BUFFER, src, Min(msg_len + 1, room))
    IN  IF CStrLen(m, start) < room
        THEN [m EXCEPT !.TX_STATUS_MSG_BUFFER = copied, !.append_ok = TRUE]
        ELSE [m EXCEPT !.TX_STATUS_MSG_BUFFER = Truncated(copied), !.append_ok = FALSE]

\* message_enqueue_for_transmit(const char *msg, size_t msg_len)
message_enqueue_for_transmit_raw(m, start, msg_len) ==
    LET a == message_append_raw(m, start, msg_len)
    IN  message_clear(enqueue_for_transmit(
            [a EXCEPT !.diag = Append(@, a.TX_STATUS_MSG_BUFFER)],
            StatusDoc(a.TX_STATUS_MSG_BUFFER)))

\* The feeder with the bound test written rx_buf_head <= RX_BUFFER_SIZE
rx_read_count_off_by_one(m) ==
    IF m.rx_buf_head <= RX_BUFFER_SIZE
    THEN Min(Len(m.Serial_rx), RX_BUFFER_SIZE + 1 - m.rx_buf_head)
    ELSE 0

\* The number of passes of the feeder's loop that store a byte: one for each
\* waiting byte while rx_buf_head < RX_BUFFER_SIZE.
rx_read_count(m) ==
    IF m.rx_buf_head < RX_BUFFER_SIZE
    THEN Min(Len(m.Serial_rx), RX_BUFFER_SIZE - m.rx_buf_head)
    ELSE 0

\* The feeder's loop storing the newest waiting byte in every slot it fills
rx_read_loop_newest_byte_only(m) ==
    LET n == rx_read_count(m)
        c == [m EXCEPT
                 !.RX_BUFFER = [i \in 1..RX_BUFFER_SIZE |->
                                   IF m.rx_buf_head < i /\ i <= m.rx_buf_head + n
                                   THEN m.Serial_rx[n]
                                   ELSE m.RX_BUFFER[i]],
                 !.rx_buf_head = @ + n,
                 !.Serial_rx = SubSeq(@, n + 1, Len(@))]
    IN  IF c.Serial_rx = <<>> THEN c
        ELSE [message_enqueue_for_transmit(c, MSG_INCOMING_DATA_RATE_TOO_FAST) EXCEPT
                 !.rx_buf_tail = 0, !.rx_buf_head = 0]

\* rx_read_from_serial_to_local_buffer: the while loop.  The bytes it stores
\* go to RX_BUFFER[rx_buf_head++]; a byte still waiting when rx_buf_head has
\* reached RX_BUFFER_SIZE takes the else branch and ends the loop.
rx_read_loop(m) ==
    LET n == rx_read_count(m)
        c == [m EXCEPT
                 !.RX_BUFFER = [i \in 1..RX_BUFFER_SIZE |->
                                   IF m.rx_buf_head < i /\ i <= m.rx_buf_head + n
                                   THEN m.Serial_rx[i - m.rx_buf_head]
                                   ELSE m.RX_BUFFER[i]],
                 !.rx_buf_head = @ + n,
                 !.Serial_rx = SubSeq(@, n + 1, Len(@))]
    IN  IF c.Serial_rx = <<>> THEN c
        ELSE [message_enqueue_for_transmit(c, MSG_INCOMING_DATA_RATE_TOO_FAST) EXCEPT
                 !.rx_buf_tail = 0, !.rx_buf_head = 0]

\* rx_read_from_serial_to_local_buffer (the feeder)
rx_read_from_serial_to_local_buffer(m) ==
    rx_read_loop(IF Len(m.Serial_rx) = SERIAL_RX_FULL
                 THEN message_enqueue_for_transmit(m, MSG_INSUFFICIENT_RECEIVE_RATE)
                 ELSE m)

\* Case 3 completing a payload with the state machine left in LengthHigh
receive_complete_to_length_high(m) ==
    LET r == [m EXCEPT !.rx_state = 1,
                       !.rx_buf_tail = IF m.rx_buf_tail = m.rx_buf_head THEN 0 ELSE @,
                       !.rx_buf_head = IF m.rx_buf_tail = m.rx_buf_head THEN 0 ELSE @,
                       !.rx_doc = Window(m, m.rx_message_start, m.rx_message_length)]
    IN  IF ~deserializeJson(r.rx_doc)
        THEN [message_enqueue_for_transmit_raw(
                  message_append(message_append(message_append(r, MSG_ERROR),
                                                MSG_ERR_F_STR),
                                 MSG_WHEN_DESERIALIZING),
                  r.rx_message_start, r.rx_message_length)
              EXCEPT !.rcode = "DESERIALIZATION_FAILED"]
        ELSE [r EXCEPT !.rx_data = r.rx_doc,
                       !.LED_BUILTIN = FALSE,
                       !.rcode = "PACKET_RECEIVED"]

\* receive_packet, case 3 once the payload is complete: the reset of the
\* state machine, deserialization, and the update of rx_data or the diagnostic
receive_complete(m) ==
    LET r == [m EXCEPT !.rx_state = 0,
                       !.rx_buf_tail = IF m.rx_buf_tail = m.rx_buf_head THEN 0 ELSE @,
                       !.rx_buf_head = IF m.rx_buf_tail = m.rx_buf_head THEN 0 ELSE @,
                       !.rx_doc = Window(m, m.rx_message_start, m.rx_message_length)]
    IN  IF ~deserializeJson(r.rx_doc)
        THEN [message_enqueue_for_transmit_raw(
                  message_append(message_append(message_append(r, MSG_ERROR),
                                                MSG_ERR_F_STR),
                                 MSG_WHEN_DESERIALIZING),
                  r.rx_message_start, r.rx_message_length)
              EXCEPT !.rcode = "DESERIALIZATION_FAILED"]
        ELSE [r EXCEPT !.rx_data = r.rx_doc,
                       !.LED_BUILTIN = FALSE,
                       !.rcode = "PACKET_RECEIVED"]

\* Case 2 with the low byte assigned instead of or-ed into rx_message_length
message_length_low_only(m, b) == b

\* receive_packet, case 2: rx_message_length |= b
message_length(m, b) == BitOr(m.rx_message_length, b)

\* receive_packet: one pass through the body of the while loop, entered with
\* rx_buf_tail < rx_buf_head; rcode stays "NONE" unless the pass returns.
receive_iteration(m) ==
    LET b == m.RX_BUFFER[m.rx_buf_tail + 1]
    IN  IF b = PACKET_START_TOKEN
        THEN [(IF m.rx_state # 0
               THEN message_enqueue_for_transmit(m, MSG_PREVIOUS_PACKET_INCOMPLETE)
               ELSE m)
              EXCEPT !.LED_BUILTIN = TRUE,
                     !.rx_buf_tail = m.rx_buf_tail + 1,
                     !.rx_state = 1]
        ELSE IF m.rx_state = 1
        THEN [m EXCEPT !.rx_message_length = U16(b * 256),
                       !.rx_buf_tail = @ + 1,
                       !.rx_state = 2]
        ELSE IF m.rx_state = 2
        THEN LET len == message_length(m, b)
             IN  IF len > RX_BUFFER_SIZE
                 THEN [m EXCEPT !.rx_message_length = len,
                                !.rx_state = 0,
                                !.rx_buf_tail = 0,
                                !.rx_buf_head = 0,
                                !.rcode = "MESSAGE_EXCEEDS_RX_BUFFER_SIZE"]
                 ELSE [m EXCEPT !.rx_message_length = len,
                                !.rx_buf_tail = @ + 1,
                                !.rx_message_start = m.rx_buf_tail + 1,
                                !.rx_state = 3]
        ELSE IF m.rx_state = 3
        THEN LET t == Min(U16(m.rx_message_length + m.rx_message_start), m.rx_buf_head)
             IN  IF U16(m.rx_message_length - U16(t - m.rx_message_start)) > 0
                 THEN [m EXCEPT !.rx_buf_tail = t, !.rcode = "RX_IN_PROGRESS"]
                 ELSE receive_complete([m EXCEPT !.rx_buf_tail = t])
        ELSE m

\* receive_packet: the while loop run to its return.  The program is
\* deterministic, so a pass that returns nothing and changes nothing repeats
\* for ever: rcode "SPIN" marks a call that never returns.
RECURSIVE receive_loop(_)
receive_loop(m) ==
    IF ~(m.rx_buf_tail < m.rx_buf_head) THEN [m EXCEPT !.rcode = "RX_IN_PROGRESS"]
    ELSE LET n == receive_iteration(m)
         IN  IF n.rcode # "NONE" THEN n
             ELSE IF n = m THEN [m EXCEPT !.rcode = "SPIN"]
             ELSE receive_loop(n)

\* receive_packet without the test before the loop
receive_packet_without_no_data(m) == receive_loop([m EXCEPT !.rcode = "NONE"])

\* receive_packet as one uninterrupted call
receive_packet(m) ==
    IF m.rx_buf_tail = m.rx_buf_head
    THEN [m EXCEPT !.rcode = "NO_DATA_AVAILABLE"]
    ELSE receive_loop([m EXCEPT !.rcode = "NONE"])

\* disable_rx_serial_buffer_read_interrupt leaving the mask bit as it is
disable_without_clearing(m) == m

disable_rx_serial_buffer_read_interrupt(m) == [m EXCEPT !.TIMSK4 = FALSE]
enable_rx_serial_buffer_read_interrupt(m) == [m EXCEPT !.TIMSK4 = TRUE]

\* async_receive as one call (ENABLE_RX_INTERRUPT_POLLING is defined); a call
\* whose receive_packet never returns never re-enables the interrupt.
async_receive(m) ==
    LET r == receive_packet(disable_rx_serial_buffer_read_interrupt(m))
    IN  IF r.rcode = "SPIN" THEN r ELSE enable_rx_serial_buffer_read_interrupt(r)

\* message_transmit_now up to the wait loop: the frame built in the local buffer
transmit_now_buffer(m, msg) == Packet(StatusDoc(message_append(m, msg).TX_STATUS_MSG_BUFFER))

\* message_transmit_now after the wait loop: the blocking write and the clear
transmit_now_write(m, buffer) ==
    message_clear(Serial_write([m EXCEPT !.expect = IF m.wire_ok THEN @ \o buffer ELSE @],
                               buffer))

(***************************************************************************)
(* The machine after the constructor and setup(): all counters 0, state 0, *)
(* buffers zeroed, the timer interrupt enabled.                            *)
(***************************************************************************)
InitMcu(c) ==
    [rx_state |-> 0, rx_buf_tail |-> 0, rx_buf_head |-> 0,
     rx_message_start |-> 0, rx_message_length |-> 0,
     RX_BUFFER |-> [i \in 1..c.rx |-> 0],
     tx_buf_tail |-> 0, tx_buf_head |-> 0,
     TX_BUFFER |-> [i \in 1..c.tx |-> 0],
     TX_STATUS_MSG_BUFFER |-> <<>>,
     rx_data |-> <<>>,
     Serial_rx |-> <<>>,
     TIMSK4 |-> TRUE, LED_BUILTIN |-> FALSE,
     \* return values and scratch
     rcode |-> "NONE", tcode |-> "NONE", tx_left |-> 0, packet_size |-> 0,
     append_ok |-> TRUE, past |-> 0,
     \* history
     rx_doc |-> <<>>, diag |-> <<>>, expect |-> <<>>, wire_ok |-> TRUE, oob |-> FALSE]

NoLocals == [doc |-> JsonDoc(<<>>), msg |-> <<>>, available_bytes |-> 0,
             packet_size |-> 0, buffer |-> <<>>, caller |-> "loop", iters |-> 0]

\* The start of a handler: its history of diagnostics starts empty.
Fresh(m) == [m EXCEPT !.diag = <<>>]

(***************************************************************************)
(* Specification Spec: the interrupt-driven build at the small scale.  The *)
(* host sends any bytes of HostBytes; the UART stores them in the hardware *)
(* queue at any moment; the TIMER4 interrupt runs the feeder whenever its  *)
(* mask bit is set, between any two steps of the main context; loop()      *)
(* calls the public operations in any order.  A main-context call is cut   *)
(* into steps where the interrupt can preempt it.                          *)
(***************************************************************************)
HostBytes == {PACKET_START_TOKEN, 0, 1, 65}
AvailableForWrite == 0..MaxAvail
PastChars == {0, StatusMsgSize}
TxDocs == {JsonDoc(<<65>>),
           JsonDoc([i \in 1..(TX_BUFFER_SIZE - 2) |-> 65]),
           [bytes |-> <<65>>, overflowed |-> TRUE]}

SmallCfg == [rx |-> SmallRxSize, tx |-> SmallTxSize, msg |-> StatusMsgSize,
             hwrx |-> SerialRxFull, loopback |-> FALSE]

Init ==
    /\ cfg = SmallCfg
    /\ mcu = InitMcu(SmallCfg)
    /\ pc = "loop"
    /\ loc = NoLocals
    /\ host = [bytes |-> MaxHostBytes, calls |-> 0, alphabet |-> HostBytes,
               sent |-> <<>>, script |-> <<>>, frame |-> <<>>,
               refused |-> <<>>]

\* The UART receive interrupt: a byte from the host enters the hardware queue,
\* or is lost when the queue is full.
UartReceive ==
    \E b \in host.alphabet :
        /\ host.bytes > 0
        /\ host' = [host EXCEPT !.bytes = @ - 1]
        /\ mcu' = IF Len(mcu.Serial_rx) < SERIAL_RX_FULL
                  THEN [mcu EXCEPT !.Serial_rx = Append(@, b)]
                  ELSE mcu
        /\ UNCHANGED <<pc, loc, cfg>>

\* ISR(TIMER4_COMPA_vect), taken only while its mask bit is set
TimerISR ==
    /\ mcu.TIMSK4
    /\ mcu' = rx_read_from_serial_to_local_buffer(Fresh(mcu))
    /\ UNCHANGED <<pc, loc, host, cfg>>

\* async_receive: the call and the masking of the interrupt
AsyncReceiveCall ==
    /\ pc = "loop"
    /\ mcu' = disable_rx_serial_buffer_read_interrupt(Fresh(mcu))
    /\ pc' = "receive_packet"
    /\ loc' = [NoLocals EXCEPT !.iters = 0]
    /\ UNCHANGED <<host, cfg>>

\* receive_packet: the test before the loop
ReceiveEnter ==
    /\ pc = "receive_packet"
    /\ IF mcu.rx_buf_tail = mcu.rx_buf_head
       THEN /\ mcu' = [mcu EXCEPT !.rcode = "NO_DATA_AVAILABLE"]
            /\ pc' = "received"
       ELSE /\ mcu' = [mcu EXCEPT !.rcode = "NONE"]
            /\ pc' = "while"
    /\ UNCHANGED <<loc, host, cfg>>

\* receive_packet: the loop condition and one pass through the body
ReceiveWhile ==
    /\ pc = "while"
    /\ loc.iters < MaxIters
    /\ \E past \in PastChars :
        LET n == IF mcu.rx_buf_tail < mcu.rx_buf_head
                 THEN [receive_iteration([mcu EXCEPT !.past = past]) EXCEPT !.past = 0]
                 ELSE [mcu EXCEPT !.rcode = "RX_IN_PROGRESS"]
        IN  /\ mcu' = n
            /\ pc' = IF n.rcode = "NONE" THEN "while" ELSE "received"
            /\ loc' = [loc EXCEPT !.iters = IF n.rcode = "NONE" THEN @ + 1 ELSE 0]
    /\ UNCHANGED <<host, cfg>>

\* async_receive: the interrupt is enabled again and the code returned
AsyncReceiveReturn ==
    /\ pc = "received"
    /\ mcu' = enable_rx_serial_buffer_read_interrupt(mcu)
    /\ pc' = "loop"
    /\ UNCHANGED <<loc, host, cfg>>

\* enqueue_for_transmit called from loop(): up to the return of build_packet
EnqueueCall ==
    \E doc \in TxDocs :
        /\ pc = "loop"
        /\ host.calls > 0
        /\ host' = [host EXCEPT !.calls = @ - 1]
        /\ mcu' = enqueue_build(Fresh(mcu), doc)
        /\ loc' = [NoLocals EXCEPT !.doc = doc, !.packet_size = mcu'.packet_size]
        /\ pc' = "enqueue"
        /\ UNCHANGED cfg

\* enqueue_for_transmit: tx_buf_head += packet_size and the return
EnqueueReturn ==
    /\ pc = "enqueue"
    /\ mcu' = enqueue_commit([mcu EXCEPT !.packet_size = loc.packet_size], loc.doc)
    /\ pc' = "loop"
    /\ loc' = NoLocals
    /\ UNCHANGED <<host, cfg>>

\* async_transmit, from loop() or from message_transmit_now's wait loop: the
\* test, Serial.availableForWrite() and the write
TransmitCall(from, caller) ==
    \E available_bytes \in AvailableForWrite :
        /\ pc = from
        /\ IF mcu.tx_buf_head > mcu.tx_buf_tail /\ available_bytes > 0
           THEN /\ mcu' = transmit_write(mcu, available_bytes)
                /\ pc' = "tx_written"
           ELSE /\ mcu' = mcu
                /\ pc' = "tx_return"
        /\ loc' = [loc EXCEPT !.caller = caller]
        /\ UNCHANGED <<host, cfg>>

AsyncTransmitCall == TransmitCall("loop", "loop")

\* async_transmit: tx_buf_tail == tx_buf_head, then tx_buf_tail = 0
TransmitCompare ==
    /\ pc = "tx_written"
    /\ IF mcu.tx_buf_tail = mcu.tx_buf_head
       THEN /\ mcu' = [mcu EXCEPT !.tx_buf_tail = 0]
            /\ pc' = "tx_reset"
       ELSE /\ mcu' = mcu
            /\ pc' = "tx_return"
    /\ UNCHANGED <<loc, host, cfg>>

\* async_transmit: tx_buf_head = 0
TransmitResetHead ==
    /\ pc = "tx_reset"
    /\ mcu' = [mcu EXCEPT !.tx_buf_head = 0]
    /\ pc' = "tx_return"
    /\ UNCHANGED <<loc, host, cfg>>

\* async_transmit: return tx_buf_head - tx_buf_tail; inside
\* message_transmit_now the wait loop repeats while the result is positive
TransmitReturn ==
    /\ pc = "tx_return"
    /\ mcu' = [mcu EXCEPT !.tx_left = U16(mcu.tx_buf_head - mcu.tx_buf_tail)]
    /\ pc' = IF loc.caller = "loop" THEN "loop"
             ELSE IF mcu'.tx_left > 0 THEN "now_wait" ELSE "now_write"
    /\ UNCHANGED <<loc, host, cfg>>

\* message_transmit_now: message_append and the packet built in the local buffer
TransmitNowCall ==
    /\ pc = "loop"
    /\ host.calls > 0
    /\ host' = [host EXCEPT !.calls = @ - 1]
    /\ mcu' = message_append(Fresh(mcu), MSG_ERROR)
    /\ loc' = [NoLocals EXCEPT !.buffer = transmit_now_buffer(mcu, MSG_ERROR),
                               !.caller = "now"]
    /\ pc' = "now_wait"
    /\ UNCHANGED cfg

\* message_transmit_now: one async_transmit call of the wait loop
TransmitNowWait == TransmitCall("now_wait", "now")

\* message_transmit_now: the blocking Serial.write and message_clear
TransmitNowWrite ==
    /\ pc = "now_write"
    /\ mcu' = transmit_now_write(mcu, loc.buffer)
    /\ pc' = "loop"
    /\ loc' = NoLocals
    /\ UNCHANGED <<host, cfg>>

Next ==
    \/ UartReceive
    \/ TimerISR
    \/ AsyncReceiveCall
    \/ ReceiveEnter
    \/ ReceiveWhile
    \/ AsyncReceiveReturn

Spec == Init /\ [][Next]_vars

(***************************************************************************)
(* Specification SpecTx: the transmit side of the same build.  loop()      *)
(* enqueues documents, drains the transmit buffer and sends urgent         *)
(* messages; the host sends bytes that only fill the receive buffer, and   *)
(* the TIMER4 interrupt preempts the main context between its steps.       *)
(***************************************************************************)
InitTx ==
    /\ cfg = SmallCfg
    /\ mcu = InitMcu(SmallCfg)
    /\ pc = "loop"
    /\ loc = NoLocals
    /\ host = [bytes |-> MaxTxHostBytes, calls |-> MaxAppCalls, alphabet |-> {65},
               sent |-> <<>>, script |-> <<>>, frame |-> <<>>,
               refused |-> <<>>]

NextTx ==
    \/ UartReceive
    \/ TimerISR
    \/ EnqueueCall
    \/ EnqueueReturn
    \/ AsyncTransmitCall
    \/ TransmitCompare
    \/ TransmitResetHead
    \/ TransmitReturn
    \/ TransmitNowCall
    \/ TransmitNowWait
    \/ TransmitNowWrite

SpecTx == InitTx /\ [][NextTx]_vars

(***************************************************************************)
(* Claims about the interrupt-driven receive side (specification Spec).    *)
(***************************************************************************)
InReceive == pc \in {"receive_packet", "while", "received"}

\* C1 (as claimed): every pass through the loop of receive_packet either
\* advances rx_buf_tail or returns, so a call of poll_receive ends after
\* finitely many passes, whatever the framing state and the buffered bytes.
C1_EveryPassAdvancesOrReturns ==
    [][(ReceiveWhile /\ pc' = "while") => mcu'.rx_buf_tail > mcu.rx_buf_tail]_vars

\* C5: 0 <= rx_tail <= rx_head <= RX_BUFFER_SIZE in every reachable state,
\* under every interleaving of the feeder interrupt and the steps of
\* poll_receive; the feeder stores a byte at the old rx_head, so it never
\* writes RX_BUFFER at or past RX_BUFFER_SIZE.
C5_RxOffsetsInBounds ==
    /\ 0 <= mcu.rx_buf_tail
    /\ mcu.rx_buf_tail <= mcu.rx_buf_head
    /\ mcu.rx_buf_head <= RX_BUFFER_SIZE
    /\ Len(mcu.RX_BUFFER) = RX_BUFFER_SIZE

\* C5's case: the feeder found the buffer full with bytes still waiting and
\* reset both offsets, after the state machine had consumed part of the buffer.
C5_Witness ==
    /\ mcu.diag = <<MSG_INCOMING_DATA_RATE_TOO_FAST>>
    /\ mcu.rx_buf_head = 0
    /\ mcu.rx_buf_tail = 0
    /\ mcu.rx_state # 0
    /\ mcu.Serial_rx # <<>>

\* C6: with interrupt drive, the feeder interrupt is masked during the whole
\* of receive_packet and enabled again once async_receive has returned,
\* whatever the return code; so no step taken while receive_packet runs is a
\* feeder step: none moves a byte out of the hardware queue or changes rx_head
\* or RX_BUFFER unless it is a step of the main context.
C6_FeederMaskedDuringReceive ==
    /\ [](InReceive => ~mcu.TIMSK4)
    /\ [](pc = "loop" => mcu.TIMSK4)
    /\ [][(InReceive /\ pc' = pc /\ loc' = loc)
            => /\ Len(mcu'.Serial_rx) >= Len(mcu.Serial_rx)
               /\ mcu'.rx_buf_head = mcu.rx_buf_head
               /\ mcu'.RX_BUFFER = mcu.RX_BUFFER]_vars

\* C6's case: async_receive has returned an error code with the interrupt
\* enabled again, and bytes arrived in the hardware queue during the call.
C6_Witness ==
    /\ pc = "loop"
    /\ mcu.rcode = "DESERIALIZATION_FAILED"
    /\ mcu.TIMSK4
    /\ mcu.Serial_rx # <<>>

\* The transmit state: the software transmit buffer, its two offsets and the
\* pending diagnostic message.
TxState == <<mcu.TX_BUFFER, mcu.tx_buf_tail, mcu.tx_buf_head, mcu.TX_STATUS_MSG_BUFFER>>

\* C7 (as claimed): the transmit buffer, tx_tail, tx_head and the pending
\* diagnostic message are written by the main context only: no step of the
\* feeder in interrupt context changes them.
C7_InterruptLeavesTransmitState ==
    [][TimerISR => TxState' = TxState]_vars

\* A step that is a pass through the loop body, reading the byte at rx_buf_tail.
AtPass == ReceiveWhile /\ mcu.rx_buf_tail < mcu.rx_buf_head
ByteAtTail == mcu.RX_BUFFER[mcu.rx_buf_tail + 1]

\* C4 (as claimed): in Body state a payload byte equal to the start token
\* neither starts a new frame nor queues PREVIOUS_PACKET_INCOMPLETE, wherever
\* the token lies in the payload and however the payload is split across polls.
C4_TokenInBodyIsPayload ==
    [][(AtPass /\ mcu.rx_state = 3 /\ ByteAtTail = PACKET_START_TOKEN
            /\ mcu.rx_buf_tail < mcu.rx_message_start + mcu.rx_message_length)
          => (mcu'.rx_state # 1 /\ mcu'.diag = mcu.diag)]_vars

\* The length the header declares when the pass in LengthLow state reads its
\* second length byte.
DeclaredLength == BitOr(mcu.rx_message_length, ByteAtTail)
Rejected(m) ==
    /\ m.rcode = "MESSAGE_EXCEEDS_RX_BUFFER_SIZE"
    /\ m.rx_buf_tail = 0
    /\ m.rx_buf_head = 0
    /\ m.rx_state = 0

C8_TxOffsetsInBounds ==
    /\ 0 <= mcu.tx_buf_tail
    /\ mcu.tx_buf_tail <= mcu.tx_buf_head
    /\ mcu.tx_buf_head <= TX_BUFFER_SIZE

\* C9 (as claimed): the bytes written to the sink are always a prefix of the
\* concatenation, in enqueue order, of the frames enqueued or sent directly.
C9_WireInEnqueueOrder == mcu.wire_ok

(***************************************************************************)
(* Specification SpecFrames: one frame end to end at the frame scale.  The *)
(* TX pin is wired to the RX pin; loop() enqueues one document, drains the *)
(* transmit buffer (the sink taking one byte at a time or everything that  *)
(* is pending) and polls; the TIMER4 interrupt feeds the receive buffer    *)
(* between the calls of loop().  Every call is one step here: how the      *)
(* interrupt preempts a call is the subject of Spec and SpecTx.            *)
(***************************************************************************)
FrameCfg == [rx |-> FrameRxSize, tx |-> FrameTxSize, msg |-> StatusMsgSize,
             hwrx |-> FrameTxSize + 1, loopback |-> TRUE]

\* The documents sent: JSON objects { ... } of every length that fits the
\* transmit buffer, and the short ones with start tokens inside.
FrameBodies ==
    {[i \in 1..n |-> 65] : n \in 0..(FrameTxSize - 5)}
        \cup {[i \in 1..n |-> IF i = k THEN PACKET_START_TOKEN ELSE 65] :
                 n \in 1..MaxTokenBody, k \in 1..MaxTokenBody}
FrameDocs == {JsonDoc(<<123>> \o body \o <<125>>) : body \in FrameBodies}
FrameAvailable == {1, FrameTxSize}

InitFrames ==
    /\ cfg = FrameCfg
    /\ mcu = InitMcu(FrameCfg)
    /\ pc = "loop"
    /\ loc = NoLocals
    /\ host = [bytes |-> 0, calls |-> 1, alphabet |-> {}, sent |-> <<>>,
               script |-> <<>>, frame |-> <<>>,
               refused |-> <<>>]

\* loop() calls enqueue_for_transmit
EnqueueForTransmit ==
    \E doc \in FrameDocs :
        /\ pc = "loop"
        /\ host.calls > 0
        /\ host' = [host EXCEPT !.calls = @ - 1, !.sent = doc.bytes]
        /\ mcu' = enqueue_for_transmit(Fresh(mcu), doc)
        /\ UNCHANGED <<pc, loc, cfg>>

\* loop() calls async_transmit
AsyncTransmit ==
    \E available_bytes \in FrameAvailable :
        /\ pc = "loop"
        /\ mcu' = async_transmit(Fresh(mcu), available_bytes)
        /\ UNCHANGED <<pc, loc, host, cfg>>

\* loop() calls async_receive; a call that never returns leaves the main
\* context inside the loop of receive_packet
AsyncReceive ==
    /\ pc = "loop"
    /\ mcu' = async_receive(Fresh(mcu))
    /\ pc' = IF mcu'.rcode = "SPIN" THEN "while" ELSE "loop"
    /\ UNCHANGED <<loc, host, cfg>>

NextFrames ==
    \/ EnqueueForTransmit
    \/ AsyncTransmit
    \/ TimerISR
    \/ AsyncReceive

SpecFrames == InitFrames /\ [][NextFrames]_vars

(***************************************************************************)
(* Claims about a frame sent end to end (specification SpecFrames).        *)
(***************************************************************************)
\* Bytes of enqueued frames that have not reached the software receive buffer
InFlight == U16(mcu.tx_buf_head - mcu.tx_buf_tail) + Len(mcu.Serial_rx)

\* The document was enqueued, every byte was drained and fed, and the polls
\* have consumed all of them.
RoundTripDone ==
    /\ host.calls = 0
    /\ mcu.tcode = "TX_SUCCESS"
    /\ InFlight = 0
    /\ mcu.rx_buf_tail = mcu.rx_buf_head
    /\ mcu.rcode # "NONE"

\* C2 (as claimed): once a document whose frame fits the transmit buffer is
\* enqueued, drained into the feeder and polled to completion, the codec was
\* handed exactly its payload bytes and the record received is the original.
C2_RoundTrip ==
    RoundTripDone => (mcu.rx_doc = host.sent /\ mcu.rx_data = host.sent)

\* C3 (as claimed): however the bytes of the frame are split across polls, a
\* poll that finds new bytes returns RX_IN_PROGRESS while bytes of the frame
\* are still to come, and the poll that finds the last one returns
\* PACKET_RECEIVED with the payload window of the frame.
C3_Resumable ==
    [][(AsyncReceive /\ host.calls = 0 /\ mcu.rx_buf_tail < mcu.rx_buf_head)
          => IF InFlight > 0
             THEN mcu'.rcode = "RX_IN_PROGRESS"
             ELSE /\ mcu'.rcode = "PACKET_RECEIVED"
                  /\ mcu'.rx_message_start = 3
                  /\ mcu'.rx_message_length = Len(host.sent)
                  /\ mcu'.rx_doc = host.sent]_vars

(***************************************************************************)
(* Specification SpecRestart: a frame abandoned by the host.  The host     *)
(* sends the first bytes of a frame that declares two payload bytes, then  *)
(* a complete frame; the TIMER4 interrupt feeds the receive buffer and     *)
(* loop() polls at any moment between the bytes.  The hardware queue is    *)
(* large enough to lose no byte, and nothing is drained, so the transmit   *)
(* buffer shows every diagnostic frame that was queued.                    *)
(***************************************************************************)
RestartCfg == [rx |-> RestartRxSize, tx |-> RestartTxSize, msg |-> StatusMsgSize,
               hwrx |-> RestartRxSize + 1, loopback |-> FALSE]

\* The frame a host puts on the wire for a payload
HostFrame(payload) == Packet(JsonDoc(payload))

\* The abandoned frame and the payloads of the frame that follows it
AbandonedFrame == HostFrame(<<65, 65>>)
RestartPayloads == {<<65>>, <<66, 65>>, <<PACKET_START_TOKEN>>}

InitRestart ==
    \E n \in 1..(Len(AbandonedFrame) - 1), payload \in RestartPayloads :
        /\ cfg = RestartCfg
        /\ mcu = InitMcu(RestartCfg)
        /\ pc = "loop"
        /\ loc = NoLocals
        /\ host = [bytes |-> 0, calls |-> 0, alphabet |-> {}, sent |-> <<>>,
                   script |-> SubSeq(AbandonedFrame, 1, n) \o HostFrame(payload),
                   frame |-> payload,
                   refused |-> <<>>]

\* The UART receive interrupt for the next byte the host has sent
UartReceiveScript ==
    /\ host.script # <<>>
    /\ host' = [host EXCEPT !.script = Tail(@)]
    /\ mcu' = IF Len(mcu.Serial_rx) < SERIAL_RX_FULL
              THEN [mcu EXCEPT !.Serial_rx = Append(@, Head(host.script))]
              ELSE mcu
    /\ UNCHANGED <<pc, loc, cfg>>

NextRestart ==
    \/ UartReceiveScript
    \/ TimerISR
    \/ AsyncReceive

SpecRestart == InitRestart /\ [][NextRestart]_vars

(***************************************************************************)
(* Claims about an abandoned frame (specification SpecRestart).            *)
(***************************************************************************)
PreviousPacketIncomplete == Packet(StatusDoc(MSG_PREVIOUS_PACKET_INCOMPLETE))

\* The frames in the transmit queue, none of them sent yet
TxQueue == SubSeq(mcu.TX_BUFFER, 1, mcu.tx_buf_head)

\* Every byte of the host has been fed and polled, and a poll has read a
\* start token in mid-frame (it queued a diagnostic).
RestartDone ==
    /\ host.script = <<>>
    /\ mcu.Serial_rx = <<>>
    /\ pc = "loop"
    /\ mcu.rx_buf_tail = mcu.rx_buf_head
    /\ mcu.rcode \notin {"NONE", "NO_DATA_AVAILABLE"}
    /\ TxQueue # <<>>

\* C11 (as claimed): a start token read in LengthHigh, LengthLow or at a
\* resume in Body discards the old frame, hands exactly one
\* PREVIOUS_PACKET_INCOMPLETE diagnostic to the transmit queue and makes the
\* state LengthHigh, and the well-formed frame that follows is delivered as
\* PACKET_RECEIVED with its own bytes; a start token read in AwaitStart
\* queues nothing.
C11_MidFrameRestart ==
    /\ [](RestartDone => /\ TxQueue = PreviousPacketIncomplete
                         /\ mcu.rx_state = 0
                         /\ mcu.rx_data = host.frame)
    /\ [][(AsyncReceive /\ mcu.rx_buf_head = mcu.rx_buf_tail + 1
              /\ ByteAtTail = PACKET_START_TOKEN)
            => /\ mcu'.rx_state = 1
               /\ mcu'.diag = IF mcu.rx_state = 0
                              THEN <<>>
                              ELSE <<MSG_PREVIOUS_PACKET_INCOMPLETE>>]_vars

(***************************************************************************)
(* Specification SpecCalls: the contracts of the transmit-side operations. *)
(* loop() calls enqueue_for_transmit, async_transmit, message_append and   *)
(* message_enqueue_for_transmit in any order, each call one step whose     *)
(* name and arguments stay in loc; the host sends bytes and the TIMER4     *)
(* interrupt runs between the calls, so the buffers are also filled by the *)
(* feeder's diagnostics.  Preemption inside a call is the subject of       *)
(* SpecTx.                                                                 *)
(***************************************************************************)
\* The texts loop() appends: short, medium, and as long as the buffer
AppTexts == {[i \in 1..n |-> 77] : n \in {1, 3, StatusMsgSize}}

InitCalls ==
    /\ cfg = SmallCfg
    /\ mcu = InitMcu(SmallCfg)
    /\ pc = "loop"
    /\ loc = NoLocals
    /\ host = [bytes |-> MaxLoopHostBytes, calls |-> MaxLoopCalls, alphabet |-> {65},
               sent |-> <<>>, script |-> <<>>, frame |-> <<>>,
               refused |-> <<>>]

\* loop() calls enqueue_for_transmit(doc)
LoopEnqueueForTransmit ==
    \E doc \in TxDocs :
        /\ pc = "loop"
        /\ host.calls > 0
        /\ mcu' = enqueue_for_transmit(Fresh(mcu), doc)
        \* history: the last document refused with TRANSMIT_RATE_TOO_LOW
        /\ host' = [host EXCEPT !.calls = @ - 1,
                                !.refused = IF mcu'.tcode = "TRANSMIT_RATE_TOO_LOW"
                                            THEN doc.bytes ELSE @]
        /\ loc' = [NoLocals EXCEPT !.caller = "enqueue_for_transmit", !.doc = doc]
        /\ UNCHANGED <<pc, cfg>>

\* loop() calls async_transmit()
LoopAsyncTransmit ==
    \E available_bytes \in AvailableForWrite :
        /\ pc = "loop"
        /\ mcu' = async_transmit(Fresh(mcu), available_bytes)
        /\ loc' = [NoLocals EXCEPT !.caller = "async_transmit",
                                   !.available_bytes = available_bytes]
        /\ UNCHANGED <<pc, host, cfg>>

\* loop() calls message_append(F(msg))
LoopMessageAppend ==
    \E msg \in AppTexts :
        /\ pc = "loop"
        /\ host.calls > 0
        /\ host' = [host EXCEPT !.calls = @ - 1]
        /\ mcu' = message_append(Fresh(mcu), msg)
        /\ loc' = [NoLocals EXCEPT !.caller = "message_append", !.msg = msg]
        /\ UNCHANGED <<pc, cfg>>

\* loop() calls message_enqueue_for_transmit(F(msg))
LoopMessageEnqueueForTransmit ==
    \E msg \in AppTexts :
        /\ pc = "loop"
        /\ host.calls > 0
        /\ host' = [host EXCEPT !.calls = @ - 1]
        /\ mcu' = message_enqueue_for_transmit(Fresh(mcu), msg)
        /\ loc' = [NoLocals EXCEPT !.caller = "message_enqueue_for_transmit",
                                   !.msg = msg]
        /\ UNCHANGED <<pc, cfg>>

NextCalls ==
    \/ UartReceive
    \/ TimerISR
    \/ LoopEnqueueForTransmit
    \/ LoopAsyncTransmit
    \/ LoopMessageAppend
    \/ LoopMessageEnqueueForTransmit

SpecCalls == InitCalls /\ [][NextCalls]_vars

(***************************************************************************)
(* Claims about the contracts of the transmit side (specification          *)
(* SpecCalls).                                                             *)
(***************************************************************************)
\* The unsent bytes TX_BUFFER[tx_buf_tail .. tx_buf_head) of a machine
Pending(m) == SubSeq(m.TX_BUFFER, m.tx_buf_tail + 1, m.tx_buf_head)
FailureCodes == {"TX_DOC_OVERFLOW", "TX_BUFFER_TOO_SMALL_TO_FIT_DATA",
                 "TRANSMIT_RATE_TOO_LOW"}

queue_for_transmit(m, doc) ==
    LET b == enqueue_build(m, doc)
    IN  IF doc.overflowed THEN [b EXCEPT !.tcode = "TX_DOC_OVERFLOW"]
        ELSE IF b.packet_size > 0
        THEN [b EXCEPT !.tx_buf_head = U16(@ + b.packet_size),
                       !.expect = IF b.wire_ok THEN @ \o Packet(doc) ELSE @,
                       !.tcode = "TX_SUCCESS"]
        ELSE IF b.tx_buf_tail < b.tx_buf_head
        THEN [b EXCEPT !.tcode = "INSUFFICIENT_TRANSMIT_RATE"]
        ELSE [b EXCEPT !.tcode = "PACKET_EXCEEDS_TX_BUFFER_SIZE"]

InitQueue ==
    /\ cfg = SmallCfg
    /\ mcu = InitMcu(SmallCfg)
    /\ pc = "loop"
    /\ loc = NoLocals
    /\ host = [bytes |-> 0, calls |-> MaxLoopCalls + 1, alphabet |-> {},
               sent |-> <<>>, script |-> <<>>, frame |-> <<>>,
               refused |-> <<>>]

\* loop() calls queue_for_transmit(doc)
LoopQueueForTransmit ==
    \E doc \in TxDocs :
        /\ pc = "loop"
        /\ host.calls > 0
        /\ host' = [host EXCEPT !.calls = @ - 1]
        /\ mcu' = queue_for_transmit(Fresh(mcu), doc)
        /\ loc' = [NoLocals EXCEPT !.caller = "queue_for_transmit", !.doc = doc]
        /\ UNCHANGED <<pc, cfg>>

NextQueue ==
    \/ LoopQueueForTransmit
    \/ LoopAsyncTransmit

SpecQueue == InitQueue /\ [][NextQueue]_vars

\* The transient and the permanent failure code, under both builds' names
TransientCodes == {"TRANSMIT_RATE_TOO_LOW", "INSUFFICIENT_TRANSMIT_RATE"}
PermanentCodes == {"TX_BUFFER_TOO_SMALL_TO_FIT_DATA", "PACKET_EXCEEDS_TX_BUFFER_SIZE"}

\* C13 (as claimed): when an enqueue fails for lack of contiguous space behind
\* tx_head, the code is the transient one exactly if unsent data exists and
\* the packet would fit an empty buffer, and the permanent one exactly if
\* 3 + length exceeds the transmit capacity, whatever is pending.
C13_FailureCodeClassified ==
    [][((LoopEnqueueForTransmit \/ LoopQueueForTransmit)
            /\ ~loc'.doc.overflowed /\ mcu'.tcode # "TX_SUCCESS")
          => LET size == 3 + Len(loc'.doc.bytes)
             IN  /\ mcu'.tcode \in TransientCodes \cup PermanentCodes
                 /\ mcu'.tcode \in TransientCodes
                        <=> (mcu.tx_buf_tail < mcu.tx_buf_head
                                /\ size <= TX_BUFFER_SIZE)
                 /\ mcu'.tcode \in PermanentCodes <=> size > TX_BUFFER_SIZE]_vars

\* C14: backpressure is recoverable.  A packet with 3 + length <= TX capacity
\* that enqueue_for_transmit refused with TRANSMIT_RATE_TOO_LOW while unsent
\* data existed is accepted with TX_SUCCESS when it is enqueued again after
\* async_transmit has drained the buffer (tx_tail = tx_head = 0).
C14_RetryAfterDrainSucceeds ==
    [][(LoopEnqueueForTransmit
            /\ ~loc'.doc.overflowed
            /\ loc'.doc.bytes = host.refused
            /\ 3 + Len(host.refused) <= TX_BUFFER_SIZE
            /\ mcu.tx_buf_tail = 0 /\ mcu.tx_buf_head = 0)
          => /\ mcu'.tcode = "TX_SUCCESS"
             /\ Pending(mcu') = Packet(loc'.doc)]_vars

\* the refused packet, enqueued again into the drained buffer, was accepted
C14_Witness ==
    /\ loc.caller = "enqueue_for_transmit"
    /\ ~loc.doc.overflowed
    /\ loc.doc.bytes = host.refused
    /\ mcu.tcode = "TX_SUCCESS"
    /\ mcu.tx_buf_tail = 0
    /\ mcu.tx_buf_head = 3 + Len(host.refused)

RejectBytes == {0, 1}

InitReject ==
    \E n \in 0..MaxRejectLen, k \in 1..MaxRejectTail :
        \E body \in [1..k -> RejectBytes] :
            /\ cfg = RestartCfg
            /\ mcu = InitMcu(RestartCfg)
            /\ pc = "loop"
            /\ loc = NoLocals
            /\ host = [bytes |-> 0, calls |-> 0, alphabet |-> {}, sent |-> <<>>,
                       script |-> <<PACKET_START_TOKEN, 0, n>> \o body,
                       frame |-> SubSeq(body, 1, Min(n, k)),
                       refused |-> <<>>]

SpecReject == InitReject /\ [][NextRestart]_vars

\* Claim vocabulary for the pending diagnostic message
EndsWith(s, t) ==
    /\ Len(s) >= Len(t)
    /\ SubSeq(s, Len(s) - Len(t) + 1, Len(s)) = t

\* What the claim says of one message_append: old is the stored message
\* before, text the appended text, stored the message after, ok the result.
AppendAsClaimed(old, text, stored, ok) ==
    IF Len(text) >= TX_STATUS_MSG_BUFFER_SIZE - Len(old)
    THEN /\ ~ok
         /\ Len(stored) = TX_STATUS_MSG_BUFFER_SIZE - 1
         /\ EndsWith(stored, TX_STATUS_MSG_TRUNC_IND)
    ELSE /\ ok
         /\ stored = old \o text

\* The text of msg_len characters at RX_BUFFER + start that receive_packet
\* passes to the pointer-with-length overload (ended early by a NUL)
RawText(m, start, msg_len) ==
    SubSeq(CStr(m, start), 1, Min(Len(CStr(m, start)), msg_len))

\* The message receive_packet has built before it appends the payload
DeserializingPrefix == MSG_ERROR \o MSG_ERR_F_STR \o MSG_WHEN_DESERIALIZING

\* C18, flash-string overload: message_append(F(msg)) truncates as claimed.
C18_FlashTruncation ==
    [][LoopMessageAppend =>
         AppendAsClaimed(mcu.TX_STATUS_MSG_BUFFER, loc'.msg,
                         mcu'.TX_STATUS_MSG_BUFFER, mcu'.append_ok)]_vars

\* C18, pointer-with-length overload: the message_append(msg, msg_len) of the
\* rejected payload in receive_packet truncates as claimed.
C18_RawTruncation ==
    [][((ReceiveWhile \/ AsyncReceive) /\ mcu'.rcode = "DESERIALIZATION_FAILED")
          => AppendAsClaimed(DeserializingPrefix,
                             RawText(mcu', mcu'.rx_message_start, mcu'.rx_message_length),
                             mcu'.diag[Len(mcu'.diag)], mcu'.append_ok)]_vars

\* C18 (as claimed): for n >= capacity - e message_append returns false and
\* the stored message fills the buffer and ends with " ..."; for
\* n < capacity - e it returns true and the stored message is the old message
\* followed by the whole text; for both overloads.
C18_Truncation == C18_FlashTruncation /\ C18_RawTruncation

\* t occurs in s as a block of consecutive elements
Contains(s, t) ==
    \E i \in 0..(Len(s) - Len(t)) : SubSeq(s, i + 1, i + Len(t)) = t

\* The payload window of the frame just completed
Payload(m) == Window(m, m.rx_message_start, m.rx_message_length)

\* C16 (as claimed): when the codec rejects a completed payload, the poll
\* returns DESERIALIZATION_FAILED, rx_data is what it was before the call,
\* one diagnostic that contains the raw payload bytes is handed to the
\* transmit queue, the state is AwaitStart, and RX_BUFFER has not been
\* modified.
C16_RejectedPayloadReported ==
    [][(AsyncReceive
            /\ mcu'.rcode \in {"PACKET_RECEIVED", "DESERIALIZATION_FAILED"}
            /\ ~deserializeJson(Payload(mcu')))
          => /\ mcu'.rcode = "DESERIALIZATION_FAILED"
             /\ mcu'.rx_data = mcu.rx_data
             /\ Len(mcu'.diag) = 1
             /\ Contains(mcu'.diag[1], Payload(mcu'))
             /\ mcu'.rx_state = 0
             /\ mcu'.RX_BUFFER = mcu.RX_BUFFER]_vars

\* The feeder has taken its overflow branch in this step
OverflowReset ==
    /\ TimerISR
    /\ \E i \in 1..Len(mcu'.diag) : mcu'.diag[i] = MSG_INCOMING_DATA_RATE_TOO_FAST

\* The poll has discarded a frame whose declared length is oversized
OversizeDiscard ==
    /\ ReceiveWhile
    /\ mcu'.rcode = "MESSAGE_EXCEEDS_RX_BUFFER_SIZE"

\* C17 (as claimed): whenever an in-flight message is discarded, by the
\* oversized-length discard of the poll or by the overflow reset of the
\* feeder, both receive offsets are 0 and the framing state is AwaitStart
\* afterwards.
C17_DiscardResetsFraming ==
    [][(OverflowReset \/ OversizeDiscard)
          => /\ mcu'.rx_buf_tail = 0
             /\ mcu'.rx_buf_head = 0
             /\ mcu'.rx_state = 0]_vars

\* C17, the oversized-length discard alone
C17_OversizeDiscardResetsFraming ==
    [][OversizeDiscard
          => /\ mcu'.rx_buf_tail = 0
             /\ mcu'.rx_buf_head = 0
             /\ mcu'.rx_state = 0]_vars

\* C19: message_enqueue_for_transmit returns exactly the code that
\* enqueue_for_transmit returns for the status document of the pending
\* message, has the transmit-side effect of that enqueue, and leaves the
\* pending message buffer empty, whatever the outcome.
C19_MessageEnqueueClearsPending ==
    [][LoopMessageEnqueueForTransmit =>
         LET packet == Packet(StatusDoc(mcu'.diag[Len(mcu'.diag)]))
         IN  /\ Len(mcu'.diag) = 1
             /\ mcu'.TX_STATUS_MSG_BUFFER = <<>>
             /\ mcu'.tx_buf_tail = mcu.tx_buf_tail
             /\ IF Len(packet) <= TX_BUFFER_SIZE - mcu.tx_buf_head
                THEN /\ mcu'.tcode = "TX_SUCCESS"
                     /\ mcu'.tx_buf_head = mcu.tx_buf_head + Len(packet)
                     /\ Pending(mcu') = Pending(mcu) \o packet
                ELSE /\ mcu'.tcode = IF Len(packet) > TX_BUFFER_SIZE
                                     THEN "TX_BUFFER_TOO_SMALL_TO_FIT_DATA"
                                     ELSE "TRANSMIT_RATE_TOO_LOW"
                     /\ mcu'.tx_buf_head = mcu.tx_buf_head
                     /\ Pending(mcu') = Pending(mcu)]_vars

\* a message appended to an earlier text was refused, and the buffer is empty
C19_Witness ==
    /\ loc.caller = "message_enqueue_for_transmit"
    /\ mcu.tcode = "TRANSMIT_RATE_TOO_LOW"
    /\ Len(mcu.diag) = 1
    /\ Len(mcu.diag[1]) > Len(loc.msg)
    /\ mcu.TX_STATUS_MSG_BUFFER = <<>>

(***************************************************************************)
(* Specification SpecTxFair: SpecTx with the scheduling the hardware       *)
(* gives.  The main context keeps running (weak fairness of its steps),    *)
(* and the UART keeps emptying its transmit queue, so a wait loop that     *)
(* keeps asking finds write space again and again (strong fairness of the  *)
(* async_transmit call that writes).                                       *)
(***************************************************************************)
\* the async_transmit call of the wait loop finds write space and writes
TransmitNowWaitWrites == TransmitNowWait /\ pc' = "tx_written"

SpecTxFair ==
    /\ InitTx
    /\ [][NextTx]_vars
    /\ WF_vars(TransmitNowWait)
    /\ WF_vars(TransmitCompare)
    /\ WF_vars(TransmitResetHead)
    /\ WF_vars(TransmitReturn)
    /\ WF_vars(TransmitNowWrite)
    /\ SF_vars(TransmitNowWaitWrites)

\* The main context is inside message_transmit_now
InTransmitNow ==
    /\ loc.caller = "now"
    /\ pc \in {"now_wait", "tx_written", "tx_reset", "tx_return", "now_write"}

\* C20, termination: a call of message_transmit_now returns.
C20_TransmitNowTerminates == InTransmitNow ~> pc = "loop"

\* C20, the state on return: tx_tail = tx_head = 0, the pending message
\* buffer is empty, and the frame went to the sink directly, behind every
\* byte enqueued before it, with tx_head and TX_BUFFER left alone.
C20_TransmitNowReturnState ==
    [][TransmitNowWrite
          => /\ mcu'.tx_buf_tail = 0
             /\ mcu'.tx_buf_head = 0
             /\ mcu'.TX_STATUS_MSG_BUFFER = <<>>
             /\ mcu'.tx_buf_head = mcu.tx_buf_head
             /\ mcu'.TX_BUFFER = mcu.TX_BUFFER
             /\ mcu'.wire_ok
             /\ mcu'.expect = <<>>]_vars

\* C20 (as claimed): message_transmit_now terminates when the sink keeps
\* offering write space, and on return both transmit offsets are 0, the
\* pending message buffer is empty and the frame has been written to the sink
\* directly, without passing through the transmit buffer.
C20_TransmitNow == C20_TransmitNowTerminates /\ C20_TransmitNowReturnState

(***************************************************************************)
(* Specification SpecPoll: the receive side of Spec with each call of      *)
(* async_receive taken as one step.  The feeder is masked for the whole    *)
(* call, so nothing of the machine changes between the steps of a call in  *)
(* Spec but through the call itself.                                       *)
(***************************************************************************)
NextPoll ==
    \/ UartReceive
    \/ TimerISR
    \/ AsyncReceive

SpecPoll == Init /\ [][NextPoll]_vars

\* The receive state a poll can change
RxState(m) ==
    <<m.rx_state, m.rx_buf_tail, m.rx_buf_head, m.rx_message_start,
      m.rx_message_length, m.RX_BUFFER, m.rx_data, m.LED_BUILTIN>>

\* A call of async_receive that returns
PollReturns == AsyncReceive /\ mcu'.rcode # "SPIN"

\* C21: a poll returns NO_DATA_AVAILABLE exactly if rx_tail = rx_head when it
\* starts, and then changes no receive state; it returns RX_IN_PROGRESS exactly
\* if it started with bytes to read and neither completed a packet nor hit an
\* error, and then it has consumed at least one byte and has exhausted the
\* buffer or waits in Body for payload bytes.
C21_NoDataAndInProgress ==
    [][PollReturns =>
         /\ (mcu'.rcode = "NO_DATA_AVAILABLE") <=> (mcu.rx_buf_tail = mcu.rx_buf_head)
         /\ (mcu'.rcode = "NO_DATA_AVAILABLE") => RxState(mcu') = RxState(mcu)
         /\ (mcu'.rcode = "RX_IN_PROGRESS")
               <=> /\ mcu.rx_buf_tail # mcu.rx_buf_head
                   /\ mcu'.rcode \notin {"PACKET_RECEIVED", "DESERIALIZATION_FAILED",
                                         "MESSAGE_EXCEEDS_RX_BUFFER_SIZE"}
         /\ (mcu'.rcode = "RX_IN_PROGRESS")
               => /\ mcu'.rx_buf_tail > mcu.rx_buf_tail
                  /\ mcu'.rx_buf_head = mcu.rx_buf_head
                  /\ mcu'.rx_state # 0
                  /\ \/ mcu'.rx_buf_tail = mcu'.rx_buf_head
                     \/ /\ mcu'.rx_state = 3
                        /\ mcu'.rx_buf_tail
                              < mcu'.rx_message_start + mcu'.rx_message_length]_vars

\* a poll that read a header and a part of the payload returned RX_IN_PROGRESS
C21_Witness ==
    /\ pc = "loop"
    /\ mcu.rcode = "RX_IN_PROGRESS"
    /\ mcu.rx_state = 3
    /\ mcu.rx_buf_tail = mcu.rx_buf_head
    /\ mcu.rx_buf_tail < mcu.rx_message_start + mcu.rx_message_length

\* C22 (as claimed): between polls the receive-activity indicator is on
\* exactly while a message is in progress: it is on when a start token has
\* been consumed and the message has not ended, and off when the poll has
\* returned with the state AwaitStart, however the message ended.
C22_IndicatorTracksFraming ==
    pc = "loop" => (mcu.LED_BUILTIN <=> mcu.rx_state # 0)

\* C22, for the messages that end with PACKET_RECEIVED
C22_IndicatorOffAfterPacketReceived ==
    (pc = "loop" /\ mcu.rcode = "PACKET_RECEIVED") => ~mcu.LED_BUILTIN

\* C22, the indicator while a message is in progress
C22_IndicatorOnInProgress ==
    (pc = "loop" /\ mcu.rx_state # 0) => mcu.LED_BUILTIN

\* C23: the framing state changes only in a pass of receive_packet and only
\* along these edges: any state to LengthHigh on a start token; LengthHigh to
\* LengthLow on another byte; LengthLow to Body on another byte with the
\* assembled length <= capacity, and then message_start = rx_tail; LengthLow
\* to AwaitStart with the length > capacity; Body to AwaitStart when the
\* message_start + message_length bytes are present.
C23_FramingEdges ==
    [][mcu'.rx_state # mcu.rx_state
          => /\ AtPass
             /\ \/ /\ ByteAtTail = PACKET_START_TOKEN
                   /\ mcu'.rx_state = 1
                \/ /\ ByteAtTail # PACKET_START_TOKEN
                   /\ mcu.rx_state = 1
                   /\ mcu'.rx_state = 2
                \/ /\ ByteAtTail # PACKET_START_TOKEN
                   /\ mcu.rx_state = 2
                   /\ mcu'.rx_state = 3
                   /\ mcu'.rx_message_length = DeclaredLength
                   /\ mcu'.rx_message_length <= RX_BUFFER_SIZE
                   /\ mcu'.rx_message_start = mcu'.rx_buf_tail
                \/ /\ ByteAtTail # PACKET_START_TOKEN
                   /\ mcu.rx_state = 2
                   /\ mcu'.rx_state = 0
                   /\ DeclaredLength > RX_BUFFER_SIZE
                \/ /\ ByteAtTail # PACKET_START_TOKEN
                   /\ mcu.rx_state = 3
                   /\ mcu'.rx_state = 0
                   /\ mcu.rx_buf_head >= mcu.rx_message_start + mcu.rx_message_length]_vars

\* a poll has gone round the whole cycle and delivered a payload
C23_Witness ==
    /\ pc = "loop"
    /\ mcu.rcode = "PACKET_RECEIVED"
    /\ mcu.rx_state = 0
    /\ mcu.rx_message_length > 0
    /\ Len(mcu.rx_data) = mcu.rx_message_length

(***************************************************************************)
(* Specification SpecHeader: the host sends the three header bytes that    *)
(* build_packet writes for a payload of L bytes, for every L the receive   *)
(* buffer admits; the feeder and async_receive run as in SpecRestart, with *)
(* the buffers of SpecFrames.                                              *)
(***************************************************************************)
HeaderCfg == [rx |-> FrameRxSize, tx |-> FrameTxSize, msg |-> StatusMsgSize,
              hwrx |-> FrameRxSize + 1, loopback |-> FALSE]

InitHeader ==
    \E L \in 0..FrameRxSize :
        /\ cfg = HeaderCfg
        /\ mcu = InitMcu(HeaderCfg)
        /\ pc = "loop"
        /\ loc = NoLocals
        /\ host = [bytes |-> 0, calls |-> 0, alphabet |-> {}, sent |-> <<>>,
                   script |-> SubSeq(HostFrame([i \in 1..L |-> 65]), 1, 3),
                   frame |-> [i \in 1..L |-> 65],
                   refused |-> <<>>]

SpecHeader == InitHeader /\ [][NextRestart]_vars

\* The three header bytes have been sent, fed and consumed by polls
HeaderConsumed ==
    /\ host.script = <<>>
    /\ mcu.Serial_rx = <<>>
    /\ pc = "loop"
    /\ mcu.rx_buf_head = 3
    /\ mcu.rx_buf_tail = 3

\* C24 (as claimed): for every payload length L in 0..RX_BUFFER_SIZE, once
\* the receiver has consumed the header build_packet writes for L (start
\* token, highByte(L), lowByte(L)) from AwaitStart, the state is Body and
\* message_length = L.
C24_HeaderSymmetry ==
    HeaderConsumed => (mcu.rx_state = 3 /\ mcu.rx_message_length = Len(host.frame))

\* C24 for the lengths whose two length bytes are not the start token
C24_HeaderSymmetryUnlessToken ==
    (HeaderConsumed /\ highByte(Len(host.frame)) # PACKET_START_TOKEN
                    /\ lowByte(Len(host.frame)) # PACKET_START_TOKEN)
        => (mcu.rx_state = 3 /\ mcu.rx_message_length = Len(host.frame))

(***************************************************************************)
(* Specification SpecStream: the small receive buffer fed from a byte      *)
(* stream fixed at the start: a start token followed by MaxStream - 1      *)
(* bytes of StreamBytes.  host.sent keeps the whole stream; the hardware   *)
(* queue is large enough to lose none of it.  The feeder and async_receive *)
(* run in any order, so the consumer may fall behind and the feeder may    *)
(* take its overflow branch.                                               *)
(***************************************************************************)
StreamBytes == {0, 65}

StreamCfg == [rx |-> SmallRxSize, tx |-> SmallTxSize, msg |-> StatusMsgSize,
              hwrx |-> MaxStream + 1, loopback |-> FALSE]

InitStream ==
    \E body \in [1..(MaxStream - 1) -> StreamBytes] :
        /\ cfg = StreamCfg
        /\ mcu = InitMcu(StreamCfg)
        /\ pc = "loop"
        /\ loc = NoLocals
        /\ host = [bytes |-> 0, calls |-> 0, alphabet |-> {},
                   sent |-> <<PACKET_START_TOKEN>> \o body,
                   script |-> <<PACKET_START_TOKEN>> \o body,
                   frame |-> <<>>,
                   refused |-> <<>>]

SpecStream == InitStream /\ [][NextRestart]_vars

\* The number of bytes of the stream the feeder has taken so far
Fed == Len(host.sent) - Len(host.script) - Len(mcu.Serial_rx)

\* The position in the stream of the byte stored at RX_BUFFER[0]: the feeder
\* stores at rx_buf_head, and every reset of rx_buf_head restarts at index 0.
StreamBase == Fed - mcu.rx_buf_head

\* C25 (as claimed): the payload handed to the codec is exactly the
\* message_length bytes that follow, in the input stream, the header (start
\* token, high byte, low byte of message_length) that put the receiver into
\* Body, after any sequence of feeds, polls and resets.
C25_PayloadFollowsItsHeader ==
    [][(AsyncReceive /\ mcu'.rcode \in {"PACKET_RECEIVED", "DESERIALIZATION_FAILED"})
          => LET at == StreamBase + mcu'.rx_message_start
                 L == mcu'.rx_message_length
             IN  /\ at >= 3
                 /\ at + L <= Len(host.sent)
                 /\ SubSeq(host.sent, at - 2, at)
                       = <<PACKET_START_TOKEN, highByte(L), lowByte(L)>>
                 /\ mcu'.rx_doc = SubSeq(host.sent, at + 1, at + L)]_vars

\* C25 for the polls before any overflow reset of the feeder
C25_PayloadFollowsItsHeaderUnlessOverflow ==
    [][(AsyncReceive /\ mcu'.rcode \in {"PACKET_RECEIVED", "DESERIALIZATION_FAILED"}
            /\ Fed <= RX_BUFFER_SIZE)
          => LET at == StreamBase + mcu'.rx_message_start
                 L == mcu'.rx_message_length
             IN  /\ at >= 3
                 /\ at + L <= Len(host.sent)
                 /\ SubSeq(host.sent, at - 2, at)
                       = <<PACKET_START_TOKEN, highByte(L), lowByte(L)>>
                 /\ mcu'.rx_doc = SubSeq(host.sent, at + 1, at + L)]_vars

\* C26 (as claimed): whenever the state is Body the payload window fits the
\* receive buffer, message_start + message_length <= RX_BUFFER_SIZE, whatever
\* offset the frame starts at.
C26_WindowFitsBuffer ==
    mcu.rx_state = 3
        => mcu.rx_message_start + mcu.rx_message_length <= RX_BUFFER_SIZE

\* C26, what the length check of case 2 does establish
C26_LengthFitsBuffer ==
    mcu.rx_state = 3 => mcu.rx_message_length <= RX_BUFFER_SIZE

(***************************************************************************)
(* Specification SpecChunks: a consumer that keeps up.  The host sends two *)
(* well-formed frames, each shorter than the receive buffer, back to back; *)
(* the bytes arrive in chunks of at most MaxChunk bytes, so the hardware   *)
(* queue never fills; the feeder runs, and async_receive is called after   *)
(* every run of the feeder, before the next one.                           *)
(***************************************************************************)
ChunkPayloads == {<<65>>, <<65, 65>>, <<66, 65, 65>>}

ChunkCfg == [rx |-> RestartRxSize, tx |-> RestartTxSize, msg |-> StatusMsgSize,
             hwrx |-> MaxChunk + 1, loopback |-> FALSE]

InitChunks ==
    \E first \in ChunkPayloads, second \in ChunkPayloads :
        /\ cfg = ChunkCfg
        /\ mcu = InitMcu(ChunkCfg)
        /\ pc = "loop"
        /\ loc = NoLocals
        /\ host = [bytes |-> 0, calls |-> 0, alphabet |-> {},
                   sent |-> HostFrame(first) \o HostFrame(second),
                   script |-> HostFrame(first) \o HostFrame(second),
                   frame |-> second,
                   refused |-> <<>>]

\* The UART receive interrupt for the next byte of the stream; the host
\* leaves room in the hardware queue
ChunkArrives ==
    /\ host.script # <<>>
    /\ Len(mcu.Serial_rx) < MaxChunk
    /\ host' = [host EXCEPT !.script = Tail(@)]
    /\ mcu' = [mcu EXCEPT !.Serial_rx = Append(@, Head(host.script))]
    /\ UNCHANGED <<pc, loc, cfg>>

\* ISR(TIMER4_COMPA_vect): a run of the feeder, once the last one was polled
ChunkFeed ==
    /\ pc = "loop"
    /\ mcu.TIMSK4
    /\ mcu' = rx_read_from_serial_to_local_buffer(Fresh(mcu))
    /\ pc' = "fed"
    /\ UNCHANGED <<loc, host, cfg>>

\* loop() calls async_receive after the run of the feeder
ChunkPoll ==
    /\ pc = "fed"
    /\ mcu' = async_receive(Fresh(mcu))
    /\ pc' = IF mcu'.rcode = "SPIN" THEN "while" ELSE "loop"
    /\ UNCHANGED <<loc, host, cfg>>

NextChunks ==
    \/ ChunkArrives
    \/ ChunkFeed
    \/ ChunkPoll

SpecChunks == InitChunks /\ [][NextChunks]_vars

\* C27 (as claimed): when async_receive is called after every feed and every
\* frame is well formed and shorter than the buffer, the feeder never takes
\* its overflow reset (INCOMING_DATA_RATE_TOO_FAST), however the frames are
\* chunked across feeds.
C27_NoOverflowWhenConsumerKeepsUp ==
    [][ChunkFeed
          => \A i \in 1..Len(mcu'.diag) :
                mcu'.diag[i] # MSG_INCOMING_DATA_RATE_TOO_FAST]_vars

\* C27, the first part alone: the overflow reset is taken only when the
\* unconsumed bytes rx_head - rx_tail fill the buffer
C27_OverflowOnlyWhenBufferFull ==
    [][(ChunkFeed /\ \E i \in 1..Len(mcu'.diag) :
                        mcu'.diag[i] = MSG_INCOMING_DATA_RATE_TOO_FAST)
          => mcu.rx_buf_tail = 0]_vars

(***************************************************************************)
(* Specification SpecMain: the transmit buffer under main-context          *)
(* operations only.  loop() calls enqueue_for_transmit,                    *)
(* message_enqueue_for_transmit, async_transmit and message_transmit_now   *)
(* in any order; no byte arrives and the TIMER4 interrupt never runs, so   *)
(* nothing is queued from interrupt context.                               *)
(***************************************************************************)
InitMain ==
    /\ cfg = SmallCfg
    /\ mcu = InitMcu(SmallCfg)
    /\ pc = "loop"
    /\ loc = NoLocals
    /\ host = [bytes |-> 0, calls |-> MaxLoopCalls + 1, alphabet |-> {},
               sent |-> <<>>, script |-> <<>>, frame |-> <<>>,
               refused |-> <<>>]

NextMain ==
    \/ LoopEnqueueForTransmit
    \/ LoopMessageEnqueueForTransmit
    \/ LoopAsyncTransmit
    \/ TransmitNowCall
    \/ TransmitNowWait
    \/ TransmitCompare
    \/ TransmitResetHead
    \/ TransmitReturn
    \/ TransmitNowWrite

SpecMain == InitMain /\ [][NextMain]_vars

\* The two return codes of an enqueue that found no room for the packet
NoRoomCodes == {"TRANSMIT_RATE_TOO_LOW", "TX_BUFFER_TOO_SMALL_TO_FIT_DATA"}

RX_SERIAL_BUFFER_SIZE == cfg.rx

DirectCfg == [rx |-> DirectRxSize, tx |-> RestartTxSize, msg |-> StatusMsgSize,
              hwrx |-> SerialRxFull, loopback |-> FALSE]

InitDirectMcu(c) ==
    LET m == InitMcu(c)
        fields == DOMAIN m \cup {"rx_message_len", "rx_message_pos", "RX_SERIAL_BUFFER"}
    IN  [f \in fields |->
            IF f = "RX_SERIAL_BUFFER" THEN [i \in 1..c.rx |-> 0]
            ELSE IF f \in {"rx_message_len", "rx_message_pos"} THEN 0
            ELSE m[f]]

\* message_queue_for_transmit(const __FlashStringHelper *msg)
message_queue_for_transmit(m, msg) ==
    LET a == message_append(m, msg)
    IN  message_clear(queue_for_transmit(
            [a EXCEPT !.diag = Append(@, a.TX_STATUS_MSG_BUFFER)],
            StatusDoc(a.TX_STATUS_MSG_BUFFER)))

\* The C string at RX_SERIAL_BUFFER, as far as the array holds it
RECURSIVE SerialCStr(_, _)
SerialCStr(m, start) ==
    IF start >= RX_SERIAL_BUFFER_SIZE \/ m.RX_SERIAL_BUFFER[start + 1] = 0 THEN <<>>
    ELSE <<m.RX_SERIAL_BUFFER[start + 1]>> \o SerialCStr(m, start + 1)

\* case 3 once rx_message_pos == rx_message_len: the frame is deserialized
direct_receive_complete(m) ==
    LET r == [m EXCEPT !.rx_state = 0,
                       !.rx_doc = SubSeq(m.RX_SERIAL_BUFFER, 1, m.rx_message_len)]
    IN  IF ~deserializeJson(r.rx_doc)
        THEN [message_queue_for_transmit(
                  message_append(message_append(message_append(r, MSG_ERROR),
                                                MSG_ERR_F_STR),
                                 MSG_WHEN_DESERIALIZING),
                  SerialCStr(r, 0))
              EXCEPT !.rcode = "DESERIALIZATION_FAILED",
                     \* strlen leaves the array when it holds no terminator
                     !.oob = @ \/ Len(SerialCStr(r, 0)) = RX_SERIAL_BUFFER_SIZE]
        ELSE [r EXCEPT !.rx_data = r.rx_doc, !.rcode = "PACKET_RECEIVED"]

\* case 3: RX_SERIAL_BUFFER[rx_message_pos++] = b and the completion test
direct_receive_body(m, b) ==
    LET w == [m EXCEPT !.RX_SERIAL_BUFFER =
                           IF m.rx_message_pos < RX_SERIAL_BUFFER_SIZE
                           THEN [@ EXCEPT ![m.rx_message_pos + 1] = b]
                           ELSE @,
                       !.oob = @ \/ m.rx_message_pos >= RX_SERIAL_BUFFER_SIZE,
                       !.rx_message_pos = U16(@ + 1)]
    IN  IF w.oob THEN w
        ELSE IF w.rx_message_pos = w.rx_message_len THEN direct_receive_complete(w)
        ELSE w

\* One pass of the while loop for the byte b just read
direct_receive_byte(m, b) ==
    IF b = PACKET_START_TOKEN
    THEN [(IF m.rx_state # 0
           THEN message_queue_for_transmit(m, MSG_PREVIOUS_PACKET_INCOMPLETE)
           ELSE m)
          EXCEPT !.rx_message_len = 0, !.rx_message_pos = 0, !.rx_state = 1]
    ELSE IF m.rx_state = 1
    THEN [m EXCEPT !.rx_message_len = U16(b * 256), !.rx_state = 2]
    ELSE IF m.rx_state = 2
    THEN LET len == m.rx_message_len + b
         IN  IF len > RX_SERIAL_BUFFER_SIZE
             THEN [m EXCEPT !.rx_message_len = len, !.rx_state = 0,
                            !.rcode = "MESSAGE_EXCEEDS_RX_BUFFER_SIZE"]
             ELSE [m EXCEPT !.rx_message_len = len, !.rx_state = 3]
    ELSE IF m.rx_state = 3
    THEN direct_receive_body(m, b)
    ELSE m

\* while (Serial.available()) { b = Serial.read(); ... }
RECURSIVE direct_receive_loop(_)
direct_receive_loop(m) ==
    IF m.Serial_rx = <<>> THEN [m EXCEPT !.rcode = "RX_IN_PROGRESS"]
    ELSE LET n == direct_receive_byte([m EXCEPT !.Serial_rx = Tail(@)],
                                      Head(m.Serial_rx))
         IN  IF n.rcode # "NONE" \/ n.oob THEN n ELSE direct_receive_loop(n)

\* Communication::async_receive of communication.cpp as one call
direct_async_receive(m) ==
    direct_receive_loop(
        [(IF Len(m.Serial_rx) = SERIAL_RX_FULL
          THEN message_queue_for_transmit(m, MSG_INSUFFICIENT_RECEIVE_RATE)
          ELSE m)
         EXCEPT !.rcode = "NONE"])

(***************************************************************************)
(* Specification SpecDirect: the host sends any bytes, loop() calls the    *)
(* direct-polling async_receive.                                           *)
(***************************************************************************)
DirectBytes == {PACKET_START_TOKEN, 0, 1, 65}

InitDirect ==
    /\ cfg = DirectCfg
    /\ mcu = InitDirectMcu(DirectCfg)
    /\ pc = "loop"
    /\ loc = NoLocals
    /\ host = [bytes |-> MaxDirectBytes, calls |-> 0, alphabet |-> DirectBytes,
               sent |-> <<>>, script |-> <<>>, frame |-> <<>>,
               refused |-> <<>>]

\* loop() calls async_receive()
DirectAsyncReceive ==
    /\ pc = "loop"
    /\ ~mcu.oob
    /\ mcu' = direct_async_receive(Fresh(mcu))
    /\ loc' = [NoLocals EXCEPT !.caller = "async_receive"]
    /\ UNCHANGED <<pc, host, cfg>>

NextDirect ==
    \/ UartReceive
    \/ DirectAsyncReceive

SpecDirect == InitDirect /\ [][NextDirect]_vars

\* C29 (as claimed): in the direct-polling receiver, whenever the state is
\* Body, rx_message_pos <= rx_message_len <= RX_SERIAL_BUFFER_SIZE, for every
\* declared length including 0.
C29_BodyOffsetsOrdered ==
    mcu.rx_state = 3
        => /\ mcu.rx_message_pos <= mcu.rx_message_len
           /\ mcu.rx_message_len <= RX_SERIAL_BUFFER_SIZE

\* C29, its consequence: no payload byte is written to RX_SERIAL_BUFFER at an
\* index >= RX_SERIAL_BUFFER_SIZE
C29_NoWritePastBuffer ==
    [][DirectAsyncReceive => ~mcu'.oob]_vars

\* C29 for declared lengths above 0: in Body the position stays below the
\* length, and the length within the buffer
C29_BodyOffsetsOrderedNonZero ==
    (mcu.rx_state = 3 /\ mcu.rx_message_len > 0)
        => /\ mcu.rx_message_pos < mcu.rx_message_len
           /\ mcu.rx_message_len <= RX_SERIAL_BUFFER_SIZE

\* The feeder took its overflow reset in the step
FeederOverflowed ==
    \E i \in 1..Len(mcu'.diag) : mcu'.diag[i] = MSG_INCOMING_DATA_RATE_TOO_FAST

\* C30: a run of the feeder that does not hit the full-buffer case appends
\* the hardware queue's bytes to RX_BUFFER at the old rx_buf_head in arrival
\* order, increases rx_buf_head by the number of bytes moved, empties the
\* hardware queue and leaves rx_buf_tail, rx_state, rx_message_start,
\* rx_message_length and the bytes below the old rx_buf_head unchanged; the
\* feeder changes rx_buf_tail only in the overflow reset.
C30_FeederFrameEffect ==
    [][TimerISR =>
         /\ ~FeederOverflowed =>
              /\ SubSeq(mcu'.RX_BUFFER, 1, mcu.rx_buf_head)
                    = SubSeq(mcu.RX_BUFFER, 1, mcu.rx_buf_head)
              /\ SubSeq(mcu'.RX_BUFFER, mcu.rx_buf_head + 1, mcu'.rx_buf_head)
                    = mcu.Serial_rx
              /\ SubSeq(mcu'.RX_BUFFER, mcu'.rx_buf_head + 1, RX_BUFFER_SIZE)
                    = SubSeq(mcu.RX_BUFFER, mcu'.rx_buf_head + 1, RX_BUFFER_SIZE)
              /\ mcu'.rx_buf_head = mcu.rx_buf_head + Len(mcu.Serial_rx)
              /\ mcu'.Serial_rx = <<>>
              /\ mcu'.rx_buf_tail = mcu.rx_buf_tail
              /\ mcu'.rx_state = mcu.rx_state
              /\ mcu'.rx_message_start = mcu.rx_message_start
              /\ mcu'.rx_message_length = mcu.rx_message_length
         /\ mcu'.rx_buf_tail # mcu.rx_buf_tail => FeederOverflowed]_vars

\* C30 witness: in the middle of a frame's header the feeder has filled
\* RX_BUFFER up to its last slot with two bytes that differ, without overflow
C30_Witness ==
    /\ mcu.rx_state = 2
    /\ mcu.rx_buf_head = RX_BUFFER_SIZE
    /\ mcu.rx_buf_tail = RX_BUFFER_SIZE - 2
    /\ mcu.Serial_rx = <<>>
    /\ mcu.diag = <<>>
    /\ mcu.RX_BUFFER[RX_BUFFER_SIZE] # mcu.RX_BUFFER[RX_BUFFER_SIZE - 1]

====
